---- MODULE Spec2Model ----
(***************************************************************************)
(* Model of soccer-results.py: one fetch of the matchday data, the match   *)
(* field extractors, the goal reconstructor getGoalsTuple, the team-name   *)
(* filter getMatchesByTeamName and the print pass updateAll.               *)
(*                                                                         *)
(* Python values that may be None are tagged records: None, Str(chars),    *)
(* List(items), and the (homeGoals, awayGoals) tuple.  Strings that the    *)
(* program looks inside (team names, the --team argument) are sequences of *)
(* characters; strings it only copies to the output are TLA+ strings.      *)
(***************************************************************************)
EXTENDS Integers, Sequences, FiniteSets

VARIABLES
    pc,                 \* position of the program
    teamNameSubstring,  \* the --team argument: None or Str(..)
    allMatches,         \* local of updateAll / argument of getMatchesByTeamName
    requests,           \* number of HTTP GETs issued so far
    stdout,             \* sequence of print() calls
    stderr,             \* sequence of messages written by sys.exit
    exitCode,           \* None while running, else IntVal(code)
    firstIteration,     \* local of updateAll
    pos,                \* number of matches the for loop of updateAll has consumed
    match,              \* the match handed to getScore / getGoalsTuple
    score,              \* result of getScore(match)
    goalsTuple,         \* result of getGoalsTuple(match)
    response,           \* what the last HTTP GET came back with
    filtered,           \* result of getMatchesByTeamName(s, L)
    refiltered          \* result of getMatchesByTeamName(s, filtered)

vars == <<pc, teamNameSubstring, allMatches, requests, stdout, stderr, exitCode,
          firstIteration, pos, match, score, goalsTuple, response, filtered, refiltered>>

----------------------------------------------------------------------------
(* Bounds *)

MaxGoals == 3       \* longest goal list drawn for the reconstructor
MaxScore == 2       \* largest cumulative score a feed entry carries
MaxMatches == 3     \* longest match list a response carries
MaxSubLen == 2      \* longest --team argument

----------------------------------------------------------------------------
(* Python values *)

None == [type |-> "None"]
Str(s) == [type |-> "str", chars |-> s]
List(items) == [type |-> "list", items |-> items]
IntVal(n) == [type |-> "int", val |-> n]

SeqsUpTo(S, n) == UNION {[1..k -> S] : k \in 0..n}

----------------------------------------------------------------------------
(* Match field extractors *)

getTeamNames(m) == <<m.Team1.TeamName, m.Team2.TeamName>>

getScore(m) ==
    LET resultsList == m.MatchResults IN
    IF Len(resultsList) = 0
    THEN <<0, 0>>
    ELSE <<resultsList[1].PointsTeam1, resultsList[1].PointsTeam2>>

getGoalsList(m) == m.Goals

\* Variant of getNewScore that reads the two sides in the wrong order.
getNewScore_Swapped(goal) == <<goal.ScoreTeam2, goal.ScoreTeam1>>

getNewScore(goal) == <<goal.ScoreTeam1, goal.ScoreTeam2>>

hasFinished(m) == m.MatchIsFinished

hasBegun(m) == Len(m.MatchResults) > 0

----------------------------------------------------------------------------
(* Goal reconstructor *)

\* Variant of the loop that leaves the loop at the first inconsistent event
\* (break) and hands back the lists built so far.
RECURSIVE GoalsLoop_Partial(_, _, _, _, _, _)
GoalsLoop_Partial(goalsList, k, homeGoals, awayGoals, currentHomeScore, currentAwayScore) ==
    IF k > Len(goalsList)
    THEN [type |-> "tuple", home |-> homeGoals, away |-> awayGoals]
    ELSE LET goal == goalsList[k]
             newHomeScore == goal.ScoreTeam1
             newAwayScore == goal.ScoreTeam2
         IN  IF newHomeScore = currentHomeScore + 1 /\ newAwayScore = currentAwayScore
             THEN GoalsLoop_Partial(goalsList, k + 1, Append(homeGoals, goal),
                                    Append(awayGoals, None),
                                    currentHomeScore + 1, currentAwayScore)
             ELSE IF newHomeScore = currentHomeScore /\ newAwayScore = currentAwayScore + 1
             THEN GoalsLoop_Partial(goalsList, k + 1, Append(homeGoals, None),
                                    Append(awayGoals, goal),
                                    currentHomeScore, currentAwayScore + 1)
             ELSE [type |-> "tuple", home |-> homeGoals, away |-> awayGoals]

\* One pass of the for loop of getGoalsTuple over goalsList[k..], starting
\* from the accumulated lists and the running score.
RECURSIVE GoalsLoop(_, _, _, _, _, _)
GoalsLoop(goalsList, k, homeGoals, awayGoals, currentHomeScore, currentAwayScore) ==
    IF k > Len(goalsList)
    THEN [type |-> "tuple", home |-> homeGoals, away |-> awayGoals]
    ELSE LET goal == goalsList[k]
             newHomeScore == getNewScore(goal)[1]
             newAwayScore == getNewScore(goal)[2]
         IN  IF newHomeScore = currentHomeScore + 1 /\ newAwayScore = currentAwayScore
             THEN GoalsLoop(goalsList, k + 1, Append(homeGoals, goal), Append(awayGoals, None),
                            currentHomeScore + 1, currentAwayScore)
             ELSE IF newHomeScore = currentHomeScore /\ newAwayScore = currentAwayScore + 1
             THEN GoalsLoop(goalsList, k + 1, Append(homeGoals, None), Append(awayGoals, goal),
                            currentHomeScore, currentAwayScore + 1)
             ELSE None

\* Variant of getGoalsTuple whose loop stops one event short.
getGoalsTuple_DropLast(m) ==
    LET goalsList == getGoalsList(m)
    IN  GoalsLoop(SubSeq(goalsList, 1, Len(goalsList) - 1), 1, <<>>, <<>>, 0, 0)

getGoalsTuple(m) == GoalsLoop(getGoalsList(m), 1, <<>>, <<>>, 0, 0)

----------------------------------------------------------------------------
(* Inputs of the reconstructor *)

Minutes == {23}

GoalEvents ==
    [ScoreTeam1 : 0..MaxScore, ScoreTeam2 : 0..MaxScore, MatchMinute : Minutes,
     GoalGetterName : {"Mueller"}, IsPenalty : {FALSE}, IsOwnGoal : {FALSE}]

Result(h, a) == [PointsTeam1 |-> h, PointsTeam2 |-> a]

ResultLists == {<<>>, <<Result(1, 1)>>, <<Result(2, 0), Result(1, 0)>>}

Team(name) == [TeamName |-> name]

InitTimeline ==
    /\ pc = "match"
    /\ teamNameSubstring = None
    /\ allMatches = None
    /\ requests = 0
    /\ stdout = <<>>
    /\ stderr = <<>>
    /\ exitCode = None
    /\ firstIteration = FALSE
    /\ pos = 0
    /\ response = None
    /\ match \in [Team1 : {Team(<<"B">>)}, Team2 : {Team(<<"s">>)},
                  MatchResults : ResultLists,
                  Goals : SeqsUpTo(GoalEvents, MaxGoals),
                  MatchIsFinished : {FALSE}]
    /\ score = None
    /\ goalsTuple = None
    /\ filtered = None
    /\ refiltered = None

\* updateAll line 200: getScore(match)
CallGetScore ==
    /\ pc = "match"
    /\ score' = getScore(match)
    /\ pc' = "scored"
    /\ UNCHANGED <<teamNameSubstring, allMatches, requests, stdout, stderr, exitCode,
                   firstIteration, pos, match, goalsTuple, response, filtered, refiltered>>

\* updateAll line 201: getGoalsTuple(match)
CallGetGoalsTuple ==
    /\ pc = "scored"
    /\ goalsTuple' = getGoalsTuple(match)
    /\ pc' = "reconstructed"
    /\ UNCHANGED <<teamNameSubstring, allMatches, requests, stdout, stderr, exitCode,
                   firstIteration, pos, match, score, response, filtered, refiltered>>

NextTimeline == CallGetScore \/ CallGetGoalsTuple

SpecTimeline == InitTimeline /\ [][NextTimeline]_vars

----------------------------------------------------------------------------
(* Strings: str.casefold and the substring test `in` *)

\* The characters team names and the --team argument are drawn from.  "sz"
\* stands for the sharp s (U+00DF), whose case folding is the two letters ss.
Chars == {"b", "B", "s", "S", "sz"}

CasefoldChar(c) ==
    CASE c = "B" -> <<"b">>
      [] c = "S" -> <<"s">>
      [] c = "sz" -> <<"s", "s">>
      [] OTHER -> <<c>>

RECURSIVE casefold(_)
casefold(str) ==
    IF str = <<>> THEN <<>> ELSE CasefoldChar(Head(str)) \o casefold(Tail(str))

\* needle in hay
Contains(hay, needle) ==
    \E k \in 0..(Len(hay) - Len(needle)) : SubSeq(hay, k + 1, k + Len(needle)) = needle

----------------------------------------------------------------------------
(* Filter *)

\* Variant of hasTeam that folds the team names but not the argument.
hasTeam_ArgNotFolded(m, substring) ==
    LET teamNames == <<casefold(getTeamNames(m)[1]), casefold(getTeamNames(m)[2])>>
    IN  \E t \in 1..2 : Contains(teamNames[t], substring.chars)

hasTeam(m, substring) ==
    LET teamNames == <<casefold(getTeamNames(m)[1]), casefold(getTeamNames(m)[2])>>
    IN  \E t \in 1..2 : Contains(teamNames[t], casefold(substring.chars))

\* Variant of the None test of line 121 written as `if not allMatches`.
allMatchesIsNone_Falsy(matches) ==
    \/ matches = None
    \/ matches.items = <<>>

\* Line 121: getMatchesByTeamName was given no match list.
allMatchesIsNone(matches) == matches = None

\* items with its first element equal to x taken out (list.remove).
RECURSIVE ListRemove(_, _)
ListRemove(items, x) ==
    IF items = <<>> THEN <<>>
    ELSE IF Head(items) = x THEN Tail(items)
    ELSE <<Head(items)>> \o ListRemove(Tail(items), x)

RECURSIVE RemoveWhileIterating(_, _, _)
RemoveWhileIterating(items, i, substring) ==
    IF i > Len(items) THEN items
    ELSE IF hasTeam(items[i], substring)
    THEN RemoveWhileIterating(items, i + 1, substring)
    ELSE RemoveWhileIterating(ListRemove(items, items[i]), i + 1, substring)

\* Variant of getMatchesByTeamName that removes the other matches from the
\* list while it iterates over it.
getMatchesByTeamName_RemoveInLoop(substring, matches) ==
    IF substring = None
    THEN matches
    ELSE List(RemoveWhileIterating(matches.items, 1, substring))

\* Variant of getMatchesByTeamName that treats an empty argument as one that
\* matches nothing.
getMatchesByTeamName_EmptyMatchesNothing(substring, matches) ==
    IF substring = None
    THEN matches
    ELSE LET Keep(m) == substring.chars # <<>> /\ hasTeam(m, substring)
         IN  List(SelectSeq(matches.items, Keep))

\* Lines 123-126 of getMatchesByTeamName, for a match list that is present.
getMatchesByTeamName(substring, matches) ==
    IF substring = None
    THEN matches
    ELSE LET Keep(m) == hasTeam(m, substring)
         IN  List(SelectSeq(matches.items, Keep))

----------------------------------------------------------------------------
(* Formatter / printer.  A print() call is one entry of stdout; `kind` names *)
(* the print statement it comes from.                                        *)

getMinute(goal) == goal.MatchMinute

getGoalGetter(goal) == goal.GoalGetterName

isPenalty(goal) == goal.IsPenalty = TRUE

isOwnGoal(goal) == goal.IsOwnGoal = TRUE

getRunningStateGerman(m) ==
    IF hasFinished(m) THEN "beendet"
    ELSE IF hasBegun(m) THEN "laeuft" ELSE "noch nicht gestartet"

teamNamesToString(teamNames) == teamNames[1] \o <<" ", "-", " ">> \o teamNames[2]

\* getScore never hands None to scoreToString, so only line 139 is modelled.
scoreToString(sc) == [home |-> sc[1], colon |-> " : ", away |-> sc[2]]

\* The rendered goal without the padding of rjust.
goalToString(goal) ==
    IF goal = None
    THEN <<>>
    ELSE <<getMinute(goal), "' ", getGoalGetter(goal)>>
            \o (IF isPenalty(goal) THEN <<" (P)">> ELSE <<>>)
            \o (IF isOwnGoal(goal) THEN <<" (OG)">> ELSE <<>>)

GoalLine(home, away) == [kind |-> "goal", home |-> home, away |-> away]

BlankLine == [kind |-> "blank"]

\* Variant of printGoals that has no early return for None and so still
\* prints the trailing newline.
printGoals_NoneCheckMissing(t, newline) ==
    LET homeGoals == IF t = None THEN <<>> ELSE [i \in 1..Len(t.home) |-> goalToString(t.home[i])]
        awayGoals == IF t = None THEN <<>> ELSE [i \in 1..Len(t.away) |-> goalToString(t.away[i])]
        numGoals == Len(homeGoals)
    IN  [i \in 1..numGoals |-> GoalLine(homeGoals[i], awayGoals[i])]
            \o (IF newline THEN <<BlankLine>> ELSE <<>>)

\* The print() calls of printGoals, in order (the column padding of ljust
\* is left out of the rendered line).
printGoals(t, newline) ==
    IF t = None
    THEN <<>>
    ELSE LET homeGoals == [i \in 1..Len(t.home) |-> goalToString(t.home[i])]
             awayGoals == [i \in 1..Len(t.away) |-> goalToString(t.away[i])]
             numGoals == Len(homeGoals)
         IN  IF Len(awayGoals) # numGoals \/ numGoals = 0
             THEN <<>>
             ELSE [i \in 1..numGoals |-> GoalLine(homeGoals[i], awayGoals[i])]
                     \o (IF newline THEN <<BlankLine>> ELSE <<>>)

printSeparator == <<[kind |-> "separator", text |-> "---"]>>

printHeadline == <<[kind |-> "headline", text |-> "Aktuelle Bundesliga-Spielstaende:"]>>

\* Variant of the loop head that prints the separator in every iteration.
SeparatorUnlessFirst_Always(first) == printSeparator

\* Lines 195-198: the separator goes before every match but the first.
SeparatorUnlessFirst(first) == IF first THEN <<>> ELSE printSeparator

\* Lines 199-202: what one iteration of the loop prints for match m.
PrintMatchBlock(m) ==
    <<[kind |-> "teams", text |-> teamNamesToString(getTeamNames(m))]>>
        \o <<[kind |-> "score", text |-> scoreToString(getScore(m))]>>
        \o printGoals(getGoalsTuple(m), TRUE)
        \o <<[kind |-> "state", text |-> getRunningStateGerman(m)]>>

----------------------------------------------------------------------------
(* The matchday data a response can carry *)

Goal(h, a, minute, name, penalty, ownGoal) ==
    [ScoreTeam1 |-> h, ScoreTeam2 |-> a, MatchMinute |-> minute,
     GoalGetterName |-> name, IsPenalty |-> penalty, IsOwnGoal |-> ownGoal]

MatchFinished ==
    [Team1 |-> Team(<<"B", "s">>), Team2 |-> Team(<<"S", "b">>),
     MatchResults |-> <<Result(1, 1), Result(1, 0)>>,
     Goals |-> <<Goal(1, 0, 23, "Mueller", TRUE, FALSE),
                 Goal(1, 1, 67, "Reus", FALSE, FALSE)>>,
     MatchIsFinished |-> TRUE]

\* The feed skipped the 1:0.
MatchSkippedStep ==
    [Team1 |-> Team(<<"b", "sz">>), Team2 |-> Team(<<"B">>),
     MatchResults |-> <<Result(2, 0)>>,
     Goals |-> <<Goal(2, 0, 50, "Kruse", FALSE, FALSE)>>,
     MatchIsFinished |-> FALSE]

MatchNotStarted ==
    [Team1 |-> Team(<<"S", "S">>), Team2 |-> Team(<<"s">>),
     MatchResults |-> <<>>,
     Goals |-> <<>>,
     MatchIsFinished |-> FALSE]

MatchOwnGoal ==
    [Team1 |-> Team(<<"sz">>), Team2 |-> Team(<<"S", "b">>),
     MatchResults |-> <<Result(0, 1)>>,
     Goals |-> <<Goal(0, 1, 90, "Hummels", FALSE, TRUE)>>,
     MatchIsFinished |-> TRUE]

MatchUniverse == {MatchFinished, MatchSkippedStep, MatchNotStarted, MatchOwnGoal}

MatchLists == {List(l) : l \in SeqsUpTo(MatchUniverse, MaxMatches)}

\* requests.exceptions.RequestException raised by requests.get / response.json
Failures == {"ConnectionError", "Timeout", "JSONDecodeError"}

Raised(e) == [type |-> "exception", name |-> e]

getAllMatchesOutcomes == {Raised(e) : e \in Failures} \cup MatchLists

TeamArgs == {None} \cup {Str(s) : s \in SeqsUpTo(Chars, MaxSubLen)}

----------------------------------------------------------------------------
(* The program run: main -> updateAll *)

InitRun ==
    /\ pc = "start"
    /\ teamNameSubstring \in TeamArgs
    /\ allMatches = None
    /\ requests = 0
    /\ stdout = <<>>
    /\ stderr = <<>>
    /\ exitCode = None
    /\ firstIteration = FALSE
    /\ pos = 0
    /\ match = None
    /\ score = None
    /\ goalsTuple = None
    /\ response = None
    /\ filtered = None
    /\ refiltered = None

\* Line 188, getAllMatches returns response.json()
FetchSucceeds ==
    /\ pc = "start"
    /\ requests' = requests + 1
    /\ \E body \in MatchLists :
          /\ response' = body
          /\ allMatches' = body
    /\ pc' = "fetched"
    /\ UNCHANGED <<teamNameSubstring, stdout, stderr, exitCode, firstIteration, pos,
                   match, score, goalsTuple, filtered, refiltered>>

\* Variant of the except branch that prints the message and goes on to exit.
FetchFails_PrintsMessage ==
    /\ pc = "start"
    /\ requests' = requests + 1
    /\ \E e \in Failures : response' = Raised(e)
    /\ stdout' = Append(stdout, [kind |-> "error", text |-> "Network error."])
    /\ exitCode' = IntVal(1)
    /\ pc' = "exited"
    /\ UNCHANGED <<teamNameSubstring, allMatches, stderr, firstIteration, pos,
                   match, score, goalsTuple, filtered, refiltered>>

\* Line 188, getAllMatches: requests.get or response.json raises and
\* sys.exit("Network error.") writes the message to stderr and exits with 1.
FetchFails ==
    /\ pc = "start"
    /\ requests' = requests + 1
    /\ \E e \in Failures : response' = Raised(e)
    /\ stderr' = Append(stderr, "Network error.")
    /\ exitCode' = IntVal(1)
    /\ pc' = "exited"
    /\ UNCHANGED <<teamNameSubstring, allMatches, stdout, firstIteration, pos,
                   match, score, goalsTuple, filtered, refiltered>>

\* Lines 189-190 and 193: no --team argument
Headline ==
    /\ pc = "fetched"
    /\ teamNameSubstring = None
    /\ stdout' = stdout \o printHeadline
    /\ firstIteration' = TRUE
    /\ pc' = "loop"
    /\ UNCHANGED <<teamNameSubstring, allMatches, requests, stderr, exitCode, pos,
                   match, score, goalsTuple, response, filtered, refiltered>>

\* Lines 191-193: getMatchesByTeamName(teamNameSubstring, allMatches), which
\* calls getAllMatches itself when it is handed None.
Filter ==
    /\ pc = "fetched"
    /\ teamNameSubstring # None
    /\ IF allMatchesIsNone(allMatches)
       THEN /\ requests' = requests + 1
            /\ \E r \in getAllMatchesOutcomes :
                  /\ response' = r
                  /\ IF r.type = "exception"
                     THEN /\ stderr' = Append(stderr, "Network error.")
                          /\ exitCode' = IntVal(1)
                          /\ pc' = "exited"
                          /\ UNCHANGED <<allMatches, firstIteration>>
                     ELSE /\ allMatches' = getMatchesByTeamName(teamNameSubstring, r)
                          /\ firstIteration' = TRUE
                          /\ pc' = "loop"
                          /\ UNCHANGED <<stderr, exitCode>>
       ELSE /\ allMatches' = getMatchesByTeamName(teamNameSubstring, allMatches)
            /\ firstIteration' = TRUE
            /\ pc' = "loop"
            /\ UNCHANGED <<requests, response, stderr, exitCode>>
    /\ UNCHANGED <<teamNameSubstring, stdout, pos, match, score, goalsTuple,
                   filtered, refiltered>>

\* Lines 194-202: one iteration of the for loop
PrintMatch ==
    /\ pc = "loop"
    /\ pos < Len(allMatches.items)
    /\ stdout' = stdout \o SeparatorUnlessFirst(firstIteration)
                        \o PrintMatchBlock(allMatches.items[pos + 1])
    /\ firstIteration' = FALSE
    /\ pos' = pos + 1
    /\ UNCHANGED <<pc, teamNameSubstring, allMatches, requests, stderr, exitCode,
                   match, score, goalsTuple, response, filtered, refiltered>>

\* The loop is exhausted, updateAll and main return
Finish ==
    /\ pc = "loop"
    /\ pos = Len(allMatches.items)
    /\ exitCode' = IntVal(0)
    /\ pc' = "done"
    /\ UNCHANGED <<teamNameSubstring, allMatches, requests, stdout, stderr,
                   firstIteration, pos, match, score, goalsTuple, response,
                   filtered, refiltered>>

NextRun == FetchSucceeds \/ FetchFails \/ Headline \/ Filter \/ PrintMatch \/ Finish

SpecRun == InitRun /\ [][NextRun]_vars

----------------------------------------------------------------------------
(* getMatchesByTeamName called on its own, and again on its own result *)

InitFilter ==
    /\ pc = "args"
    /\ teamNameSubstring \in TeamArgs
    /\ allMatches \in {None} \cup MatchLists
    /\ requests = 0
    /\ stdout = <<>>
    /\ stderr = <<>>
    /\ exitCode = None
    /\ firstIteration = FALSE
    /\ pos = 0
    /\ match = None
    /\ score = None
    /\ goalsTuple = None
    /\ response = None
    /\ filtered = None
    /\ refiltered = None

\* filtered = getMatchesByTeamName(teamNameSubstring, allMatches)
CallGetMatchesByTeamName ==
    /\ pc = "args"
    /\ IF allMatchesIsNone(allMatches)
       THEN /\ requests' = requests + 1
            /\ \E r \in getAllMatchesOutcomes :
                  /\ response' = r
                  /\ IF r.type = "exception"
                     THEN /\ stderr' = Append(stderr, "Network error.")
                          /\ exitCode' = IntVal(1)
                          /\ pc' = "exited"
                          /\ UNCHANGED filtered
                     ELSE /\ filtered' = getMatchesByTeamName(teamNameSubstring, r)
                          /\ pc' = "filtered"
                          /\ UNCHANGED <<stderr, exitCode>>
       ELSE /\ filtered' = getMatchesByTeamName(teamNameSubstring, allMatches)
            /\ pc' = "filtered"
            /\ UNCHANGED <<requests, response, stderr, exitCode>>
    /\ UNCHANGED <<teamNameSubstring, allMatches, stdout, firstIteration, pos, match,
                   score, goalsTuple, refiltered>>

\* refiltered = getMatchesByTeamName(teamNameSubstring, filtered)
CallGetMatchesByTeamNameAgain ==
    /\ pc = "filtered"
    /\ IF allMatchesIsNone(filtered)
       THEN /\ requests' = requests + 1
            /\ \E r \in getAllMatchesOutcomes :
                  /\ response' = r
                  /\ IF r.type = "exception"
                     THEN /\ stderr' = Append(stderr, "Network error.")
                          /\ exitCode' = IntVal(1)
                          /\ pc' = "exited"
                          /\ UNCHANGED refiltered
                     ELSE /\ refiltered' = getMatchesByTeamName(teamNameSubstring, r)
                          /\ pc' = "refiltered"
                          /\ UNCHANGED <<stderr, exitCode>>
       ELSE /\ refiltered' = getMatchesByTeamName(teamNameSubstring, filtered)
            /\ pc' = "refiltered"
            /\ UNCHANGED <<requests, response, stderr, exitCode>>
    /\ UNCHANGED <<teamNameSubstring, allMatches, stdout, firstIteration, pos, match,
                   score, goalsTuple, filtered>>

NextFilter == CallGetMatchesByTeamName \/ CallGetMatchesByTeamNameAgain

SpecFilter == InitFilter /\ [][NextFilter]_vars

----------------------------------------------------------------------------
(* Properties of the goal reconstructor *)

CumulativeScore(goal) == <<goal.ScoreTeam1, goal.ScoreTeam2>>

\* Every event is the score before it with exactly one side one higher; the
\* score before the first event is (0, 0).
ValidGoals(goals) ==
    \A i \in 1..Len(goals) :
        LET before == IF i = 1 THEN <<0, 0>> ELSE CumulativeScore(goals[i - 1])
            after == CumulativeScore(goals[i])
        IN  \/ after[1] = before[1] + 1 /\ after[2] = before[2]
            \/ after[1] = before[1] /\ after[2] = before[2] + 1

RealUpTo(events, i) == Cardinality({j \in 1..i : events[j] # None})

FinalScore(t) == <<RealUpTo(t.home, Len(t.home)), RealUpTo(t.away, Len(t.away))>>

LastCumulativeScore(goals) ==
    IF Len(goals) = 0 THEN <<0, 0>> ELSE CumulativeScore(goals[Len(goals)])

\* C1: for a goal list in which every event raises exactly one side of the
\* running score by one, getGoalsTuple returns a pair, never None; both
\* sequences are as long as the goal list, at every index exactly one of the
\* two entries is a real event, that event is the input event of the same
\* index, and the real entries counted up to an index give that event's
\* cumulative score.
C1_ValidTimeline ==
    (pc = "reconstructed" /\ ValidGoals(match.Goals)) =>
        /\ goalsTuple # None
        /\ Len(goalsTuple.home) = Len(match.Goals)
        /\ Len(goalsTuple.away) = Len(match.Goals)
        /\ \A i \in 1..Len(match.Goals) :
              /\ (goalsTuple.home[i] # None) # (goalsTuple.away[i] # None)
              /\ goalsTuple.home[i] # None => goalsTuple.home[i] = match.Goals[i]
              /\ goalsTuple.away[i] # None => goalsTuple.away[i] = match.Goals[i]
              /\ <<RealUpTo(goalsTuple.home, i), RealUpTo(goalsTuple.away, i)>>
                    = CumulativeScore(match.Goals[i])

C1_Witness ==
    /\ pc = "reconstructed"
    /\ ValidGoals(match.Goals)
    /\ Len(match.Goals) >= 2
    /\ LastCumulativeScore(match.Goals)[1] >= 1
    /\ LastCumulativeScore(match.Goals)[2] >= 1
    /\ goalsTuple # None

\* C2: for a goal list holding an event that does not raise exactly one side
\* of the running score by one, getGoalsTuple returns None, wherever the
\* event sits, and never the sequences built from the valid prefix.
C2_InvalidGivesNone ==
    (pc = "reconstructed" /\ ~ValidGoals(match.Goals)) => goalsTuple = None

\* The inconsistent event is the last one, after a valid prefix of two events.
C2_Witness ==
    /\ pc = "reconstructed"
    /\ Len(match.Goals) >= 3
    /\ ValidGoals(SubSeq(match.Goals, 1, Len(match.Goals) - 1))
    /\ ~ValidGoals(match.Goals)
    /\ goalsTuple = None

\* C10 as stated: whenever the reconstruction succeeds, the final score of
\* the timeline is the score getScore returns for the match.
C10_FinalScoreIsCurrentScore ==
    (pc = "reconstructed" /\ goalsTuple # None) => FinalScore(goalsTuple) = score

\* C10 amended: whenever the reconstruction succeeds, the final score of the
\* timeline is the cumulative score of the last goal event, (0, 0) for an
\* empty goal list, whatever MatchResults holds.
C10_FinalScoreIsLastGoalScore ==
    (pc = "reconstructed" /\ goalsTuple # None) =>
        FinalScore(goalsTuple) = LastCumulativeScore(match.Goals)

\* A successful reconstruction of a non-empty goal list whose final score
\* is not the score getScore returned.
C10_Witness ==
    /\ pc = "reconstructed"
    /\ goalsTuple # None
    /\ Len(match.Goals) >= 1
    /\ FinalScore(goalsTuple) # score

----------------------------------------------------------------------------
(* Properties of the filter *)

\* The match list the first call worked on: the one it was given, or the one
\* it fetched when it was given none.
InputList == IF allMatches = None THEN response ELSE allMatches

Filtered == pc \in {"filtered", "refiltered"}

\* The k-th smallest element of a set of indices.
Nth(S, k) == CHOOSE i \in S : Cardinality({j \in S : j <= i}) = k

FoldedOccurs(m, s) ==
    \/ Contains(casefold(m.Team1.TeamName), casefold(s))
    \/ Contains(casefold(m.Team2.TeamName), casefold(s))

SameLetter(c, d) == c = d \/ {c, d} = {"b", "B"} \/ {c, d} = {"s", "S"}

\* s and t differ in letter case at most.
CaseVariants(s, t) ==
    /\ Len(s) = Len(t)
    /\ \A i \in 1..Len(s) : SameLetter(s[i], t[i])

\* C6: for a present substring, getMatchesByTeamName returns exactly the
\* matches in which the case-folded substring occurs in the case-folded home
\* or away name, in their original order and each once; a substring that
\* differs from it in letter case only gives the same result.
C6_FilterSelectsFoldedOccurrences ==
    (Filtered /\ teamNameSubstring # None) =>
        LET L == InputList.items
            kept == {i \in 1..Len(L) : FoldedOccurs(L[i], teamNameSubstring.chars)}
        IN  /\ filtered.type = "list"
            /\ Len(filtered.items) = Cardinality(kept)
            /\ \A k \in 1..Cardinality(kept) : filtered.items[k] = L[Nth(kept, k)]
            /\ \A t \in SeqsUpTo(Chars, MaxSubLen) :
                  CaseVariants(teamNameSubstring.chars, t) =>
                      getMatchesByTeamName(Str(t), InputList) = filtered

\* An upper-case argument keeps some matches of a longer list and drops others.
C6_Witness ==
    /\ Filtered
    /\ teamNameSubstring # None
    /\ teamNameSubstring.chars # <<>>
    /\ teamNameSubstring.chars # casefold(teamNameSubstring.chars)
    /\ Len(filtered.items) >= 2
    /\ Len(filtered.items) < Len(InputList.items)

\* C7: filtering the result of the filter again with the same substring
\* (absent, empty or not) gives that result again.
C7_FilterIdempotent ==
    pc = "refiltered" => refiltered = filtered

C7_Witness ==
    /\ pc = "refiltered"
    /\ teamNameSubstring # None
    /\ Len(filtered.items) >= 1
    /\ Len(filtered.items) < Len(InputList.items)
    /\ refiltered = filtered

\* C8: with an absent substring the filter returns its match list unchanged,
\* and with the empty string it returns the same matches in the same order.
C8_AbsentAndEmptyKeepAll ==
    (Filtered /\ (teamNameSubstring = None \/ teamNameSubstring = Str(<<>>))) =>
        /\ filtered = InputList
        /\ filtered = getMatchesByTeamName(None, InputList)

C8_Witness ==
    /\ Filtered
    /\ teamNameSubstring = Str(<<>>)
    /\ Len(InputList.items) >= 2
    /\ filtered = InputList

----------------------------------------------------------------------------
(* Properties of the run *)

Printing == pc \in {"loop", "done"}

KindAt(kind) == {i \in 1..Len(stdout) : stdout[i].kind = kind}

\* C3: when the fetch of getAllMatches fails, the process ends at once with
\* a non-zero exit code and one short message, after that single request,
\* with nothing on standard output then or later; a run whose fetch
\* succeeds ends with exit code 0.
C3_FetchFailureIsFatal ==
    /\ pc = "exited" =>
          /\ exitCode # None
          /\ exitCode.val # 0
          /\ stderr = <<"Network error.">>
          /\ stdout = <<>>
          /\ requests = 1
          /\ ~ENABLED NextRun
    /\ pc = "done" => (exitCode = IntVal(0) /\ stderr = <<>>)
    /\ pc \notin {"exited", "done"} => exitCode = None
    /\ response # None /\ response.type = "exception" => pc = "exited"

\* The response could not be decoded.
C3_Witness ==
    /\ pc = "exited"
    /\ response = Raised("JSONDecodeError")
    /\ exitCode = IntVal(1)

\* C4: a run issues exactly one HTTP request, with or without a team
\* argument and whatever list comes back, the empty list included.
C4_OneRequestPerRun ==
    requests = (IF pc = "start" THEN 0 ELSE 1)

\* A run with a team argument whose response was the empty list.
C4_Witness ==
    /\ pc = "done"
    /\ teamNameSubstring # None
    /\ response = List(<<>>)
    /\ requests = 1

\* C5: a match whose reconstruction gives None is printed as its team-names
\* line, score line and state line with nothing between them, and every
\* later match of the list is still printed in full and in list order.
C5_NoneTimelinePrintsNoGoals ==
    Printing =>
        LET L == allMatches.items
            teams == KindAt("teams")
        IN  /\ Cardinality(teams) = pos
            /\ pc = "done" => (pos = Len(L) /\ exitCode = IntVal(0))
            /\ \A k \in 1..pos :
                  getGoalsTuple(L[k]) = None =>
                      /\ SubSeq(stdout, Nth(teams, k), Nth(teams, k) + 2) =
                            << [kind |-> "teams",
                                text |-> L[k].Team1.TeamName \o <<" ", "-", " ">>
                                            \o L[k].Team2.TeamName],
                               [kind |-> "score", text |-> scoreToString(getScore(L[k]))],
                               [kind |-> "state", text |-> getRunningStateGerman(L[k])] >>
                      /\ \A j \in (k + 1)..pos :
                            SubSeq(stdout, Nth(teams, j),
                                   Nth(teams, j) + Len(PrintMatchBlock(L[j])) - 1)
                                = PrintMatchBlock(L[j])

\* A match without a timeline was printed before a match with goal lines.
C5_Witness ==
    /\ pc = "done"
    /\ \E k \in 1..(Len(allMatches.items) - 1) :
          /\ getGoalsTuple(allMatches.items[k]) = None
          /\ getGoalsTuple(allMatches.items[k + 1]) # None
          /\ Len(allMatches.items[k + 1].Goals) >= 1
    /\ Cardinality(KindAt("goal")) >= 1

\* C9: after n match blocks there are max(0, n-1) separator lines, each
\* directly between the state line of one block and the team-names line of
\* the next; without a team argument the headline is the first thing
\* printed and printed once, with a team argument (the empty string
\* included) it is never printed.
C9_SeparatorsAndHeadline ==
    /\ ~Printing => stdout = <<>>
    /\ Printing =>
          /\ Cardinality(KindAt("separator")) = (IF pos = 0 THEN 0 ELSE pos - 1)
          /\ \A i \in KindAt("separator") :
                /\ 1 < i
                /\ i < Len(stdout)
                /\ stdout[i - 1].kind = "state"
                /\ stdout[i + 1].kind = "teams"
          /\ teamNameSubstring = None => KindAt("headline") = {1}
          /\ teamNameSubstring # None => KindAt("headline") = {}
          /\ pc = "done" => pos = Len(allMatches.items)

\* Two or more blocks were printed under the empty team argument.
C9_Witness ==
    /\ pc = "done"
    /\ teamNameSubstring = Str(<<>>)
    /\ pos >= 2
    /\ Cardinality(KindAt("separator")) = pos - 1

====
